---- MODULE Spec2Model ----
(***************************************************************************)
(* Model of the browser client src/app.js: three button handlers (Convert, *)
(* Ask, RunWorkflow) that sequence a file read and the HTTP requests       *)
(* /api/convert, /api/ask and /api/workflow, plus the change listeners of  *)
(* the file input, the prompt and the provider select.                     *)
(*                                                                         *)
(* Text is modelled as a sequence of characters (file names, prompt) or of *)
(* indivisible chunks of non-blank text (messages, model names, URLs);     *)
(* the blank " " is always an element of its own, so that trim() is what   *)
(* the code computes and not the identity.  An optional JSON field is a    *)
(* sequence of length 0 (absent) or 1 (present).                           *)
(*                                                                         *)
(* An async handler runs atomically up to the next await that really       *)
(* yields to the event loop (the FileReader and fetch); an await on an     *)
(* already settled promise only queues a microtask, which no DOM event can *)
(* interleave with.                                                        *)
(***************************************************************************)
EXTENDS Integers, Sequences, FiniteSets, TLC

VARIABLES
  files,            \* fileInput.files: <<>> or <<file>>
  fileName,         \* fileName.textContent
  promptV,          \* prompt.value
  charCount,        \* the number shown in charCount.textContent
  readable,         \* readable.value
  generatedScript,  \* generatedScript.value
  response,         \* response.value
  requestStatus,    \* requestStatus: [message, isError]
  disabled,         \* the disabled flag of convertBtn, askBtn, workflowBtn
  provider,         \* provider.value
  modelName,        \* modelName.value
  baseUrl,          \* baseUrl.value
  apiKey,           \* apiKey: [value, disabled, placeholder]
  matlabCmd,        \* matlabCmd.value
  timeoutSec,       \* timeoutSec.value
  tasks,            \* the click handlers suspended at an await, oldest first
  last,             \* history: the click handler run that ended most recently,
                    \* NoRun once another one is under way
  switch,           \* history: <<>>, or the fields right before and right after
                    \* the most recent provider "change"
  session           \* history: converted = <<>>, or the text of the most recent
                    \* /api/convert response with a 2xx status and ok true;
                    \* fresh = such a response has arrived since the last
                    \* fileInput "change"

vars == <<files, fileName, promptV, charCount, readable, generatedScript,
          response, requestStatus, disabled, provider, modelName, baseUrl,
          apiKey, matlabCmd, timeoutSec, tasks, last, switch, session>>

MaxTasks == 2

----------------------------------------------------------------------------
(* Strings *)

None == <<>>
Some(v) == <<v>>

IsSpace(c) == c \in {" ", "\n", "\t"}

RECURSIVE TrimStart(_)
TrimStart(s) ==
  IF s # <<>> /\ IsSpace(Head(s)) THEN TrimStart(Tail(s)) ELSE s

RECURSIVE TrimEnd(_)
TrimEnd(s) ==
  IF s # <<>> /\ IsSpace(s[Len(s)]) THEN TrimEnd(SubSeq(s, 1, Len(s) - 1)) ELSE s

\* trim that leaves the text as it is
TrimNothing(s) == s

\* String.prototype.trim
Trim(s) == TrimEnd(TrimStart(s))

LowerChar(c) ==
  CASE c = "M" -> "m"
    [] c = "S" -> "s"
    [] c = "L" -> "l"
    [] c = "X" -> "x"
    [] c = "T" -> "t"
    [] OTHER -> c

\* String.prototype.toLowerCase
ToLowerCase(s) == [i \in 1..Len(s) |-> LowerChar(s[i])]

\* String.prototype.endsWith
EndsWith(s, suffix) ==
  /\ Len(s) >= Len(suffix)
  /\ SubSeq(s, Len(s) - Len(suffix) + 1, Len(s)) = suffix

\* String.prototype.indexOf for a one-element needle, 0-based, -1 when absent
IndexOf(s, c) ==
  IF \E i \in 1..Len(s) : s[i] = c
  THEN (CHOOSE i \in 1..Len(s) : s[i] = c /\ \A j \in 1..(i - 1) : s[j] # c) - 1
  ELSE -1

\* String.prototype.slice(from) with from >= 0
SliceFrom(s, from) == SubSeq(s, from + 1, Len(s))

DigitChar(d) ==
  CASE d = 0 -> "0" [] d = 1 -> "1" [] d = 2 -> "2" [] d = 3 -> "3"
    [] d = 4 -> "4" [] d = 5 -> "5" [] d = 6 -> "6" [] d = 7 -> "7"
    [] d = 8 -> "8" [] d = 9 -> "9"

\* the decimal text a template literal gives a non-negative integer
RECURSIVE ToStr(_)
ToStr(n) == IF n < 10 THEN <<DigitChar(n)>> ELSE ToStr(n \div 10) \o <<DigitChar(n % 10)>>

\* s contains sub as a contiguous part
Contains(s, sub) ==
  \E i \in 0..(Len(s) - Len(sub)) : SubSeq(s, i + 1, i + Len(sub)) = sub

\* JavaScript `field || dflt` for an optional string field: undefined and ""
\* are both falsy
OrElse(opt, dflt) == IF opt # None /\ opt[1] # <<>> THEN opt[1] ELSE dflt

----------------------------------------------------------------------------
(* The environment: the files the user can pick, what the user can type,   *)
(* and what the server can answer.                                         *)

\* a File: its name, and the data URL a FileReader produces for it
FileA == [name |-> <<"m", ".", "s", "l", "x">>,
          result |-> <<"data:application/octet-stream;base64", ",", "WA==">>]
\* upper-case extension; a reader result without a comma
FileB == [name |-> <<"M", ".", "S", "L", "X">>,
          result |-> <<"data:">>]
FileC == [name |-> <<"m", ".", "t", "x", "t">>,
          result |-> <<"data:text/plain;base64", ",", "cQ==">>]
Files == {FileA, FileB, FileC}
FileLists == {<<>>} \cup {<<f>> : f \in Files}

Prompts == {<<>>, <<" ">>, <<" ", "q">>}

Providers == {"openai", "ollama"}
ModelNames == {<<>>, <<" ">>, <<"gpt-4o-mini">>, <<"mistral:7b-instruct">>,
               <<"llama3">>, <<" ", "gpt-4o-mini">>}
BaseUrls == {<<>>, <<"https://api.openai.com/v1">>, <<"http://localhost:11434">>,
             <<"http://gpu:8000">>, <<"http://localhost:11434", " ">>}
ApiKeys == {<<>>, <<"sk-1">>}
MatlabCmds == {<<>>, <<"matlab-r2023">>}
TimeoutSecs == {<<>>, <<"6", "0">>}

\* a parsed JSON payload; every field is optional
EmptyBody ==
  [ok |-> None, error |-> None, readable_text |-> None, stats |-> None,
   answer |-> None, generated_script |-> None, report |-> None, matlab |-> None]

\* what fetch and res.json() can deliver: fetch rejects (net = FALSE, with the
\* message of the rejection), or it resolves with an HTTP status and a body
\* that parses as JSON or does not
NetFail(msg) == [net |-> FALSE, neterr |-> msg, status |-> 0, parsable |-> FALSE,
                 body |-> EmptyBody]
Resp(status, body) == [net |-> TRUE, neterr |-> <<>>, status |-> status,
                       parsable |-> TRUE, body |-> body]
Garbled(status) == [net |-> TRUE, neterr |-> <<>>, status |-> status,
                    parsable |-> FALSE, body |-> EmptyBody]

OkBody == [EmptyBody EXCEPT !.ok = Some(TRUE)]
ErrBody(msg) == [EmptyBody EXCEPT !.ok = Some(FALSE), !.error = Some(msg)]

FailureResponses ==
  { NetFail(<<"Failed to fetch">>),
    Garbled(500),
    Garbled(200),
    Resp(200, EmptyBody),
    Resp(200, ErrBody(<<"bad format">>)),
    Resp(200, ErrBody(<<>>)),
    Resp(200, [EmptyBody EXCEPT !.ok = Some(FALSE)]),
    Resp(404, ErrBody(<<"bad format">>)),
    Resp(500, [OkBody EXCEPT !.readable_text = Some(<<"R">>),
                             !.answer = Some(<<"A">>)]) }

ConvertSuccesses ==
  { Resp(200, [OkBody EXCEPT !.readable_text = Some(<<"R">>),
                             !.stats = Some([blocks |-> 3, lines |-> 10])]),
    Resp(200, [OkBody EXCEPT !.readable_text = Some(<<" ">>)]),
    Resp(201, [OkBody EXCEPT !.error = Some(<<"bad format">>)]) }

AskSuccesses ==
  { Resp(200, [OkBody EXCEPT !.answer = Some(<<"A">>)]),
    Resp(201, [OkBody EXCEPT !.error = Some(<<"bad format">>)]) }

WorkflowSuccesses ==
  { Resp(200, [OkBody EXCEPT !.generated_script = Some(<<"G">>),
                             !.report = Some(<<"P">>),
                             !.matlab = Some([status |-> Some(<<"success">>),
                                              run_id |-> Some(<<"r1">>)])]),
    Resp(200, [OkBody EXCEPT !.generated_script = Some(<<"G">>),
                             !.matlab = Some([status |-> Some(<<"error">>),
                                              run_id |-> Some(<<>>)])]),
    Resp(201, [OkBody EXCEPT !.error = Some(<<"bad format">>)]) }

ConvertResponses == FailureResponses \cup ConvertSuccesses
AskResponses == FailureResponses \cup AskSuccesses
WorkflowResponses == FailureResponses \cup WorkflowSuccesses

----------------------------------------------------------------------------
(* Functions of src/app.js *)

\* setStatus(message, isError = false): the new requestStatus
SetStatus(message, isError) == [message |-> message, isError |-> isError]

\* setBusy that forgets askBtn
SetBusySkipsAsk(isBusy) ==
  [convertBtn |-> isBusy, askBtn |-> FALSE, workflowBtn |-> isBusy]

\* setBusy(isBusy): the new disabled flags of the three buttons
SetBusy(isBusy) ==
  [convertBtn |-> isBusy, askBtn |-> isBusy, workflowBtn |-> isBusy]

\* currentModelConfig()
CurrentModelConfig ==
  [provider |-> provider,
   model    |-> Trim(modelName),
   base_url |-> Trim(baseUrl),
   api_key  |-> Trim(apiKey.value)]

\* applyProviderDefaults that overwrites the model name and the base URL
\* whatever they hold
ApplyDefaultsAlways(p, m, b, k) ==
  IF p = "ollama"
  THEN [modelName |-> <<"mistral:7b-instruct">>,
        baseUrl   |-> <<"http://localhost:11434">>,
        apiKey    |-> [value |-> <<>>, disabled |-> TRUE,
                       placeholder |-> "Not required for local Ollama"]]
  ELSE [modelName |-> <<"gpt-4o-mini">>,
        baseUrl   |-> <<"https://api.openai.com/v1">>,
        apiKey    |-> [value |-> k.value, disabled |-> FALSE,
                       placeholder |-> "Paste API key"]]

\* applyProviderDefaults(): the new modelName.value, baseUrl.value and apiKey
\* for provider.value = p and the current field values m, b, k
ApplyProviderDefaults(p, m, b, k) ==
  IF p = "ollama"
  THEN [modelName |-> IF Trim(m) = <<>> \/ Trim(m) = <<"gpt-4o-mini">>
                      THEN <<"mistral:7b-instruct">> ELSE m,
        baseUrl   |-> IF Trim(b) = <<>> \/ Trim(b) = <<"https://api.openai.com/v1">>
                      THEN <<"http://localhost:11434">> ELSE b,
        apiKey    |-> [value |-> <<>>, disabled |-> TRUE,
                       placeholder |-> "Not required for local Ollama"]]
  ELSE [modelName |-> IF Trim(m) = <<>> \/ Trim(m) = <<"mistral:7b-instruct">>
                      THEN <<"gpt-4o-mini">> ELSE m,
        baseUrl   |-> IF Trim(b) = <<>> \/ Trim(b) = <<"http://localhost:11434">>
                      THEN <<"https://api.openai.com/v1">> ELSE b,
        apiKey    |-> [value |-> k.value, disabled |-> FALSE,
                       placeholder |-> "Paste API key"]]

\* toBase64(file), reader.onload: what the promise resolves to for reader.result
ToBase64(result) ==
  LET idx == IndexOf(result, ",")
  IN  IF idx >= 0 THEN SliceFrom(result, idx + 1) ELSE <<>>

\* res.ok of a fetch Response
ResOk(status) == status \in 200..299

\* postJson that looks at the HTTP status only
PostJsonStatusOnly(resp) ==
  IF ~resp.net
  THEN [ok |-> FALSE, data |-> EmptyBody, message |-> resp.neterr]
  ELSE LET data == IF resp.parsable THEN resp.body ELSE EmptyBody
       IN  IF ~ResOk(resp.status)
           THEN [ok |-> FALSE, data |-> data,
                 message |-> OrElse(data.error,
                               <<"Request failed (">> \o ToStr(resp.status) \o <<")">>)]
           ELSE [ok |-> TRUE, data |-> data, message |-> <<>>]

\* postJson(url, payload) once fetch has settled with resp: it returns data
\* (ok = TRUE) or throws an Error with the given message (ok = FALSE)
PostJson(resp) ==
  IF ~resp.net
  THEN [ok |-> FALSE, data |-> EmptyBody, message |-> resp.neterr]
  ELSE LET data == IF resp.parsable THEN resp.body ELSE EmptyBody
       IN  IF ~ResOk(resp.status) \/ data.ok # Some(TRUE)
           THEN [ok |-> FALSE, data |-> data,
                 message |-> OrElse(data.error,
                               <<"Request failed (">> \o ToStr(resp.status) \o <<")">>)]
           ELSE [ok |-> TRUE, data |-> data, message |-> <<>>]

\* convertIfNeeded without the extension check
ConvertAnyFile(fs, force, rv) ==
  IF fs = <<>>
  THEN [go |-> "throw", message |-> <<"Select a .slx file first.">>]
  ELSE IF ~force /\ Trim(rv) # <<>>
  THEN [go |-> "return", message |-> <<>>]
  ELSE [go |-> "read", message |-> <<>>]

\* convertIfNeeded that never reuses the readable text
ConvertAlways(fs, force, rv) ==
  IF fs = <<>>
  THEN [go |-> "throw", message |-> <<"Select a .slx file first.">>]
  ELSE IF ~EndsWith(ToLowerCase(fs[1].name), <<".", "s", "l", "x">>)
  THEN [go |-> "throw", message |-> <<"Only .slx files are supported.">>]
  ELSE [go |-> "read", message |-> <<>>]

\* convertIfNeeded looking at the readable text before it looks at the file
ConvertCacheFirst(fs, force, rv) ==
  IF ~force /\ Trim(rv) # <<>>
  THEN [go |-> "return", message |-> <<>>]
  ELSE IF fs = <<>>
  THEN [go |-> "throw", message |-> <<"Select a .slx file first.">>]
  ELSE IF ~EndsWith(ToLowerCase(fs[1].name), <<".", "s", "l", "x">>)
  THEN [go |-> "throw", message |-> <<"Only .slx files are supported.">>]
  ELSE [go |-> "read", message |-> <<>>]

\* convertIfNeeded that reuses the readable text even when forced
ConvertIgnoresForce(fs, force, rv) ==
  IF fs = <<>>
  THEN [go |-> "throw", message |-> <<"Select a .slx file first.">>]
  ELSE IF ~EndsWith(ToLowerCase(fs[1].name), <<".", "s", "l", "x">>)
  THEN [go |-> "throw", message |-> <<"Only .slx files are supported.">>]
  ELSE IF Trim(rv) # <<>>
  THEN [go |-> "return", message |-> <<>>]
  ELSE [go |-> "read", message |-> <<>>]

\* convertIfNeeded(force) up to its first await, for fileInput.files = fs and
\* readable.value = rv: it throws, returns at once, or goes on to read the file
ConvertIfNeeded(fs, force, rv) ==
  IF fs = <<>>
  THEN [go |-> "throw", message |-> <<"Select a .slx file first.">>]
  ELSE IF ~EndsWith(ToLowerCase(fs[1].name), <<".", "s", "l", "x">>)
  THEN [go |-> "throw", message |-> <<"Only .slx files are supported.">>]
  ELSE IF ~force /\ Trim(rv) # <<>>
  THEN [go |-> "return", message |-> <<>>]
  ELSE [go |-> "read", message |-> <<>>]

DigitVal(c) ==
  CASE c = "0" -> 0 [] c = "1" -> 1 [] c = "2" -> 2 [] c = "3" -> 3
    [] c = "4" -> 4 [] c = "5" -> 5 [] c = "6" -> 6 [] c = "7" -> 7
    [] c = "8" -> 8 [] c = "9" -> 9 [] OTHER -> -1

RECURSIVE DecimalValue(_)
DecimalValue(s) ==
  IF s = <<>> THEN 0
  ELSE LET r == DecimalValue(SubSeq(s, 1, Len(s) - 1))
           d == DigitVal(s[Len(s)])
       IN  IF r < 0 \/ d < 0 THEN -1 ELSE 10 * r + d

\* Number(timeoutSec.value || 300); -1 stands for NaN
TimeoutNumber(s) == IF s = <<>> THEN 300 ELSE DecimalValue(Trim(s))

----------------------------------------------------------------------------
(* Requests, and the run of a click handler *)

NoPayload ==
  [filename |-> None, content_b64 |-> None, prompt |-> None,
   readable_text |-> None, model_config |-> None, matlab_cmd |-> None,
   timeout_sec |-> None]

\* a payload that names the file selected when the request is sent
ConvertPayloadCurrentName(file, content_b64) ==
  [NoPayload EXCEPT !.filename = Some(IF files # <<>> THEN files[1].name ELSE file.name),
                    !.content_b64 = Some(content_b64)]

\* the payload of the /api/convert request
ConvertPayload(file, content_b64) ==
  [NoPayload EXCEPT !.filename = Some(file.name), !.content_b64 = Some(content_b64)]

\* the /api/ask payload built from the readable text as it was before the
\* handler's own conversion stored its result
AskPayloadStale(promptText, rv) ==
  [NoPayload EXCEPT !.prompt = Some(promptText),
                    !.readable_text = Some(Trim(readable)),
                    !.model_config = Some(CurrentModelConfig)]

\* the payload of the /api/ask request, rv being readable.value
AskPayload(promptText, rv) ==
  [NoPayload EXCEPT !.prompt = Some(promptText),
                    !.readable_text = Some(Trim(rv)),
                    !.model_config = Some(CurrentModelConfig)]

\* the payload of the /api/workflow request
WorkflowPayload(promptText, rv) ==
  [NoPayload EXCEPT !.prompt = Some(promptText),
                    !.readable_text = Some(Trim(rv)),
                    !.model_config = Some(CurrentModelConfig),
                    !.matlab_cmd = Some(IF Trim(matlabCmd) # <<>> THEN Trim(matlabCmd)
                                        ELSE <<"matlab">>),
                    !.timeout_sec = Some(TimeoutNumber(timeoutSec))]

NoResp == NetFail(<<>>)

\* entries of a handler's log: the file read it started, a request it sent, a
\* response it received
ReadEvent == [ev |-> "read", url |-> "", req |-> NoPayload, resp |-> NoResp]
ReqEvent(url, payload) == [ev |-> "req", url |-> url, req |-> payload, resp |-> NoResp]
RespEvent(url, resp) == [ev |-> "resp", url |-> url, req |-> NoPayload, resp |-> resp]

\* the values the three operations cache
Cache == [readable |-> readable, response |-> response,
          generatedScript |-> generatedScript]

\* a click handler that has just been entered: the file list and prompt it
\* sees, the cached values at that moment (and whether a conversion has
\* succeeded since the last file change), and nothing logged yet
NewTask(kind, promptText) ==
  [kind |-> kind, pc |-> "start", file |-> files, prompt |-> promptV,
   promptText |-> promptText, content_b64 |-> <<>>, pre |-> Cache,
   fresh |-> session.fresh, log |-> <<>>]

\* the record kept of a handler run that has ended
Finished(t, outcome, busy, c) ==
  [kind |-> t.kind, outcome |-> outcome, busy |-> busy, file |-> t.file,
   prompt |-> t.prompt, pre |-> t.pre, post |-> c, fresh |-> t.fresh,
   log |-> t.log]

NoRun ==
  [kind |-> "none", outcome |-> "none", busy |-> FALSE, file |-> <<>>,
   prompt |-> <<>>, pre |-> [readable |-> <<>>, response |-> <<>>,
                             generatedScript |-> <<>>],
   post |-> [readable |-> <<>>, response |-> <<>>, generatedScript |-> <<>>],
   fresh |-> FALSE, log |-> <<>>]

\* What one uninterrupted stretch of a handler leaves behind: the status
\* line, the buttons' disabled flags, the handler suspended at its next await
\* (cont, <<>> when it has ended), the record of its end (ended, <<>> while
\* it goes on) and the cached values.

\* the message of the catch block of each handler: err.message || "<default>"
CatchMessage(kind, message) ==
  IF message # <<>> THEN message
  ELSE CASE kind = "convert"  -> <<"Conversion failed.">>
         [] kind = "ask"      -> <<"Model request failed.">>
         [] kind = "workflow" -> <<"Workflow failed.">>

\* the catch block without the finally block
CatchWithoutFinally(t, message, c) ==
  [status   |-> SetStatus(CatchMessage(t.kind, message), TRUE),
   disabled |-> disabled,
   cont     |-> <<>>,
   ended    |-> <<Finished(t, "failed", TRUE, c)>>,
   cache    |-> c]

\* the catch block calling setStatus without its isError argument
CatchUnmarked(t, message, c) ==
  [status   |-> SetStatus(CatchMessage(t.kind, message), FALSE),
   disabled |-> SetBusy(FALSE),
   cont     |-> <<>>,
   ended    |-> <<Finished(t, "failed", TRUE, c)>>,
   cache    |-> c]

\* catch (err) { setStatus(..., true) } finally { setBusy(false) }
Catch(t, message, c) ==
  [status   |-> SetStatus(CatchMessage(t.kind, message), TRUE),
   disabled |-> SetBusy(FALSE),
   cont     |-> <<>>,
   ended    |-> <<Finished(t, "failed", TRUE, c)>>,
   cache    |-> c]

\* the end of the try block, then finally { setBusy(false) }
Complete(t, message, c) ==
  [status   |-> SetStatus(message, FALSE),
   disabled |-> SetBusy(FALSE),
   cont     |-> <<>>,
   ended    |-> <<Finished(t, "success", TRUE, c)>>,
   cache    |-> c]

\* the handler is suspended at an await
Await(t, status, dis, c) ==
  [status |-> status, disabled |-> dis, cont |-> <<t>>, ended |-> <<>>, cache |-> c]

\* askBtn and workflowBtn handlers from the return of convertIfNeeded to the
\* await of postJson: the request is built from the field values of that moment
Query(t, dis, c) ==
  IF t.kind = "ask"
  THEN Await([t EXCEPT !.pc = "querying",
                       !.log = Append(@, ReqEvent("/api/ask",
                                                  AskPayload(t.promptText, c.readable)))],
             SetStatus(<<"Querying model...">>, FALSE), dis, c)
  ELSE Await([t EXCEPT !.pc = "querying",
                       !.log = Append(@, ReqEvent("/api/workflow",
                                                  WorkflowPayload(t.promptText, c.readable)))],
             SetStatus(<<"Generating MATLAB script and executing in batch mode...">>, FALSE),
             dis, c)

\* what follows `await convertIfNeeded(...)` in each handler
AfterConvert(t, dis, c) ==
  IF t.kind = "convert"
  THEN Complete(t, <<"Conversion completed.">>, c)
  ELSE Query(t, dis, c)

\* a handler from setBusy(true) to its first real await (or to its end)
Start(t) ==
  LET e == ConvertIfNeeded(t.file, t.kind = "convert", readable)
  IN  CASE e.go = "throw"  -> Catch(t, e.message, Cache)
        [] e.go = "return" -> AfterConvert(t, SetBusy(TRUE), Cache)
        [] e.go = "read"   ->
             Await([t EXCEPT !.pc = "reading", !.log = Append(@, ReadEvent)],
                   SetStatus(IF t.kind = "convert" THEN <<"Converting .slx file...">>
                             ELSE <<"Preparing readable model data...">>, FALSE),
                   SetBusy(TRUE), Cache)

\* the FileReader has finished: onload (loaded) or onerror
OnFileRead(t, loaded) ==
  IF ~loaded
  THEN Catch(t, <<"Failed to read file.">>, Cache)
  ELSE LET b64 == ToBase64(t.file[1].result)
       IN  Await([t EXCEPT !.pc = "converting", !.content_b64 = b64,
                           !.log = Append(@, ReqEvent("/api/convert",
                                                      ConvertPayload(t.file[1], b64)))],
                 requestStatus, disabled, Cache)

\* convertIfNeeded storing the text of a response postJson has rejected
OnConvertResponseEager(t, resp) ==
  LET o  == PostJson(resp)
      t2 == [t EXCEPT !.log = Append(@, RespEvent("/api/convert", resp))]
      c  == [Cache EXCEPT !.readable = OrElse(o.data.readable_text, <<>>)]
  IN  IF ~o.ok
      THEN Catch(t2, o.message, c)
      ELSE AfterConvert(t2, disabled, c)

\* convertIfNeeded carrying on after a response postJson has rejected
OnConvertResponseLenient(t, resp) ==
  LET o  == PostJson(resp)
      t2 == [t EXCEPT !.log = Append(@, RespEvent("/api/convert", resp))]
  IN  AfterConvert(t2, disabled,
                   IF o.ok THEN [Cache EXCEPT !.readable = OrElse(o.data.readable_text, <<>>)]
                   ELSE Cache)

\* the /api/convert request has settled with resp
OnConvertResponse(t, resp) ==
  LET o  == PostJson(resp)
      t2 == [t EXCEPT !.log = Append(@, RespEvent("/api/convert", resp))]
  IN  IF ~o.ok
      THEN Catch(t2, o.message, Cache)
      ELSE AfterConvert(t2, disabled,
                        [Cache EXCEPT !.readable = OrElse(o.data.readable_text, <<>>)])

\* a status line that says "completed" for every status the run reports
WorkflowStatusTruthy(data) ==
  LET runInfo == IF data.matlab # None THEN data.matlab[1]
                 ELSE [status |-> None, run_id |-> None]
      state   == IF OrElse(runInfo.status, <<>>) # <<>> THEN "completed" ELSE "failed"
  IN  <<"Workflow ", state, ". Run ID: ">> \o OrElse(runInfo.run_id, <<"n/a">>)

\* the status line of a finished workflow
WorkflowStatus(data) ==
  LET runInfo == IF data.matlab # None THEN data.matlab[1]
                 ELSE [status |-> None, run_id |-> None]
      state   == IF runInfo.status = Some(<<"success">>) THEN "completed" ELSE "failed"
  IN  <<"Workflow ", state, ". Run ID: ">> \o OrElse(runInfo.run_id, <<"n/a">>)

\* a handler that stores the answer (or script and report) before postJson
\* has checked the response
OnModelResponseEager(t, resp) ==
  LET o  == PostJson(resp)
      t2 == [t EXCEPT !.log = Append(@, RespEvent(IF t.kind = "ask" THEN "/api/ask"
                                                   ELSE "/api/workflow", resp))]
      c  == IF t.kind = "ask"
            THEN [Cache EXCEPT !.response = OrElse(o.data.answer, <<>>)]
            ELSE [Cache EXCEPT !.generatedScript = OrElse(o.data.generated_script, <<>>),
                               !.response = OrElse(o.data.report, <<>>)]
  IN  IF ~o.ok
      THEN Catch(t2, o.message, c)
      ELSE IF t.kind = "ask"
      THEN Complete(t2, <<"Model response received.">>, c)
      ELSE Complete(t2, WorkflowStatus(o.data), c)

\* the /api/ask or /api/workflow request has settled with resp
OnModelResponse(t, resp) ==
  LET o  == PostJson(resp)
      t2 == [t EXCEPT !.log = Append(@, RespEvent(IF t.kind = "ask" THEN "/api/ask"
                                                   ELSE "/api/workflow", resp))]
  IN  IF ~o.ok
      THEN Catch(t2, o.message, Cache)
      ELSE IF t.kind = "ask"
      THEN Complete(t2, <<"Model response received.">>,
                    [Cache EXCEPT !.response = OrElse(o.data.answer, <<>>)])
      ELSE Complete(t2, WorkflowStatus(o.data),
                    [Cache EXCEPT !.generatedScript = OrElse(o.data.generated_script, <<>>),
                                  !.response = OrElse(o.data.report, <<>>)])

\* the empty-prompt return of the askBtn and workflowBtn handlers
PromptMissing(kind) ==
  SetStatus(IF kind = "ask" THEN <<"Enter a prompt before asking the model.">>
            ELSE <<"Enter a prompt before running MATLAB workflow.">>, TRUE)

----------------------------------------------------------------------------
(* What the history variables record, stated apart from the code *)

\* HTTP status 2xx and a payload whose ok is true
Is2xxOk(resp) ==
  /\ resp.net
  /\ resp.status >= 200 /\ resp.status <= 299
  /\ resp.parsable
  /\ resp.body.ok = Some(TRUE)

\* the readable_text of a response, "" when it has none
ReturnedText(resp) ==
  IF resp.body.readable_text # None THEN resp.body.readable_text[1] ELSE <<>>

----------------------------------------------------------------------------
(* The state machine *)

\* The page as the script leaves it once loaded.  The markup is not part of
\* the sources: the form is taken to start empty (no file, empty prompt and
\* output fields, enabled buttons) with either provider selected;
\* applyProviderDefaults() has run once.
Init ==
  /\ files = <<>>
  /\ fileName = <<"No .slx file selected">>
  /\ promptV = <<>>
  /\ charCount = 0
  /\ readable = <<>>
  /\ generatedScript = <<>>
  /\ response = <<>>
  /\ requestStatus = SetStatus(<<>>, FALSE)
  /\ disabled = SetBusy(FALSE)
  /\ provider \in Providers
  /\ LET d == ApplyProviderDefaults(provider, <<>>, <<>>,
                 [value |-> <<>>, disabled |-> FALSE, placeholder |-> ""])
     IN  /\ modelName = d.modelName
         /\ baseUrl = d.baseUrl
         /\ apiKey = d.apiKey
  /\ matlabCmd = <<>>
  /\ timeoutSec = <<>>
  /\ tasks = <<>>
  /\ last = NoRun
  /\ switch = <<>>
  /\ session = [converted |-> <<>>, fresh |-> FALSE]

\* the step a handler's stretch r makes, the handler being the i-th of tasks
\* (or a new one, i = Len(tasks) + 1)
Apply(i, r) ==
  /\ requestStatus' = r.status
  /\ disabled' = r.disabled
  /\ tasks' = SubSeq(tasks, 1, i - 1) \o r.cont \o SubSeq(tasks, i + 1, Len(tasks))
  /\ last' = IF r.ended # <<>> THEN r.ended[1]
             ELSE IF i > Len(tasks) THEN NoRun ELSE last
  /\ readable' = r.cache.readable
  /\ response' = r.cache.response
  /\ generatedScript' = r.cache.generatedScript

Settings == <<provider, modelName, baseUrl, apiKey, matlabCmd, timeoutSec, switch>>
Run == <<readable, generatedScript, response, requestStatus, disabled, tasks, last>>
Inputs == <<files, fileName, promptV, charCount>>

\* fileInput "change"
FileChange ==
  \E fs \in FileLists :
    /\ fs # files
    /\ files' = fs
    /\ fileName' = IF fs # <<>> THEN fs[1].name ELSE <<"No .slx file selected">>
    /\ session' = [session EXCEPT !.fresh = FALSE]
    /\ UNCHANGED <<promptV, charCount, Run, Settings>>

\* prompt "input"
PromptInput ==
  \E p \in Prompts :
    /\ p # promptV
    /\ promptV' = p
    /\ charCount' = Len(p)
    /\ UNCHANGED <<files, fileName, Run, Settings, session>>

\* convertBtn "click"; a disabled button dispatches no click
ClickConvert ==
  /\ ~disabled.convertBtn
  /\ Len(tasks) < MaxTasks
  /\ Apply(Len(tasks) + 1, Start(NewTask("convert", <<>>)))
  /\ UNCHANGED <<Inputs, Settings, session>>

\* askBtn "click" (kind = "ask") and workflowBtn "click" (kind = "workflow")
ClickModel(kind) ==
  /\ IF kind = "ask" THEN ~disabled.askBtn ELSE ~disabled.workflowBtn
  /\ Len(tasks) < MaxTasks
  /\ LET promptText == Trim(promptV)
     IN  IF promptText = <<>>
         THEN /\ requestStatus' = PromptMissing(kind)
              /\ last' = Finished(NewTask(kind, promptText), "failed", FALSE, Cache)
              /\ UNCHANGED <<readable, generatedScript, response, disabled, tasks>>
         ELSE Apply(Len(tasks) + 1, Start(NewTask(kind, promptText)))
  /\ UNCHANGED <<Inputs, Settings, session>>

ClickAsk == ClickModel("ask")

ClickWorkflow == ClickModel("workflow")

\* the FileReader of a suspended handler fires load or error
FileRead ==
  \E i \in 1..Len(tasks), loaded \in BOOLEAN :
    /\ tasks[i].pc = "reading"
    /\ Apply(i, OnFileRead(tasks[i], loaded))
    /\ UNCHANGED <<Inputs, Settings, session>>

\* the /api/convert request of a suspended handler settles
ConvertResponse ==
  \E i \in 1..Len(tasks), resp \in ConvertResponses :
    /\ tasks[i].pc = "converting"
    /\ Apply(i, OnConvertResponse(tasks[i], resp))
    /\ session' = IF Is2xxOk(resp)
                  THEN [converted |-> Some(ReturnedText(resp)), fresh |-> TRUE]
                  ELSE session
    /\ UNCHANGED <<Inputs, Settings>>

\* the /api/ask or /api/workflow request of a suspended handler settles
ModelResponse ==
  \E i \in 1..Len(tasks) :
    /\ tasks[i].pc = "querying"
    /\ \E resp \in (IF tasks[i].kind = "ask" THEN AskResponses ELSE WorkflowResponses) :
         Apply(i, OnModelResponse(tasks[i], resp))
    /\ UNCHANGED <<Inputs, Settings, session>>

\* provider "change": the select holds another value, applyProviderDefaults()
ProviderChange ==
  \E p \in Providers :
    /\ p # provider
    /\ provider' = p
    /\ LET d == ApplyProviderDefaults(p, modelName, baseUrl, apiKey)
       IN  /\ modelName' = d.modelName
           /\ baseUrl' = d.baseUrl
           /\ apiKey' = d.apiKey
           /\ switch' = << [before |-> [provider |-> provider, modelName |-> modelName,
                                        baseUrl |-> baseUrl, apiKey |-> apiKey],
                            after  |-> [provider |-> p, modelName |-> d.modelName,
                                        baseUrl |-> d.baseUrl, apiKey |-> d.apiKey]] >>
    /\ UNCHANGED <<Inputs, Run, matlabCmd, timeoutSec, session>>

\* the user types into a settings field (no listener is attached to them); a
\* disabled field takes no input
EditModelName ==
  \E m \in ModelNames :
    /\ m # modelName
    /\ modelName' = m
    /\ UNCHANGED <<Inputs, Run, provider, baseUrl, apiKey, matlabCmd, timeoutSec, switch, session>>

EditBaseUrl ==
  \E b \in BaseUrls :
    /\ b # baseUrl
    /\ baseUrl' = b
    /\ UNCHANGED <<Inputs, Run, provider, modelName, apiKey, matlabCmd, timeoutSec, switch, session>>

EditApiKey ==
  \E k \in ApiKeys :
    /\ ~apiKey.disabled
    /\ k # apiKey.value
    /\ apiKey' = [apiKey EXCEPT !.value = k]
    /\ UNCHANGED <<Inputs, Run, provider, modelName, baseUrl, matlabCmd, timeoutSec, switch, session>>

EditMatlabCmd ==
  \E c \in MatlabCmds :
    /\ c # matlabCmd
    /\ matlabCmd' = c
    /\ UNCHANGED <<Inputs, Run, provider, modelName, baseUrl, apiKey, timeoutSec, switch, session>>

EditTimeoutSec ==
  \E x \in TimeoutSecs :
    /\ x # timeoutSec
    /\ timeoutSec' = x
    /\ UNCHANGED <<Inputs, Run, provider, modelName, baseUrl, apiKey, matlabCmd, switch, session>>

\* the three operations and the inputs they read
NextOperations ==
  \/ FileChange
  \/ PromptInput
  \/ ClickConvert
  \/ ClickAsk
  \/ ClickWorkflow
  \/ FileRead
  \/ ConvertResponse
  \/ ModelResponse

\* the settings form
NextSettings ==
  \/ ProviderChange
  \/ EditModelName
  \/ EditBaseUrl
  \/ EditApiKey
  \/ EditMatlabCmd
  \/ EditTimeoutSec

Next == NextOperations \/ NextSettings

\* the whole page
Spec == Init /\ [][Next]_vars

\* The operations never write a settings field and their control flow reads
\* none (the settings only travel in the payloads of /api/ask and
\* /api/workflow); the settings form never touches what the operations write.
\* The two halves are therefore explored one at a time, each from Init.
SpecOperations == Init /\ [][NextOperations]_vars

SpecSettings == Init /\ [][NextSettings]_vars

\* the operations, provided every dispatched file read and every dispatched
\* request settles: the FileReader fires onload or onerror, fetch resolves
\* or rejects
SpecLive ==
  /\ Init
  /\ [][NextOperations]_vars
  /\ WF_vars(FileRead)
  /\ WF_vars(ConvertResponse)
  /\ WF_vars(ModelResponse)

----------------------------------------------------------------------------
(* Properties *)

\* every handler run in view: the one that ended last and those in flight
Runs ==
  {last} \cup {Finished(tasks[i], "pending", TRUE, Cache) : i \in 1..Len(tasks)}

AllEnabled == ~disabled.convertBtn /\ ~disabled.askBtn /\ ~disabled.workflowBtn
AllDisabled == disabled.convertBtn /\ disabled.askBtn /\ disabled.workflowBtn

\* the requests a run has sent to url, in order
RequestsTo(run, url) ==
  SelectSeq(run.log, LAMBDA e : e.ev = "req" /\ e.url = url)

IsBlank(s) == \A i \in 1..Len(s) : s[i] = " "

SlxName(file) ==
  /\ Len(file.name) >= 4
  /\ LET n == Len(file.name)
     IN  /\ file.name[n - 3] = "."
         /\ file.name[n - 2] \in {"s", "S"}
         /\ file.name[n - 1] \in {"l", "L"}
         /\ file.name[n] \in {"x", "X"}

\* C1: at most one of Convert, Ask and RunWorkflow is in flight, and while one
\* is in flight all three buttons are disabled, so that no click reaches a
\* handler: no second operation starts and no further request is issued.
C1_MutualExclusion ==
  /\ Len(tasks) <= 1
  /\ tasks # <<>> => AllDisabled

\* an Ask is in flight, its /api/ask request sent
C1_Witness ==
  /\ Len(tasks) = 1
  /\ tasks[1].kind = "ask"
  /\ tasks[1].pc = "querying"
  /\ AllDisabled

\* C2: when no operation is in flight all three buttons are enabled; every
\* operation that entered Busy has re-enabled them at its end, whatever its
\* outcome.
C2_GuaranteedRelease ==
  tasks = <<>> => AllEnabled

\* a RunWorkflow that entered Busy, converted, and failed at /api/workflow
C2_Witness ==
  /\ tasks = <<>>
  /\ last.kind = "workflow"
  /\ last.busy
  /\ last.outcome = "failed"
  /\ Len(last.log) = 5
  /\ AllEnabled

\* C3: a Convert with no file selected, or with a file whose name does not
\* end in .slx (in any case), ends in a failure status at once: it starts
\* no file read and sends no request.
C3_ConvertValidation ==
  /\ \A i \in 1..Len(tasks) :
       tasks[i].kind = "convert" => tasks[i].file # <<>> /\ SlxName(tasks[i].file[1])
  /\ (last.kind = "convert" /\ (last.file = <<>> \/ ~SlxName(last.file[1])))
       => /\ last.outcome = "failed"
          /\ last.log = <<>>
          /\ requestStatus.isError
          /\ requestStatus.message # <<>>

\* Convert was clicked with m.txt selected
C3_Witness ==
  /\ last.kind = "convert"
  /\ last.file = <<FileC>>
  /\ last.outcome = "failed"
  /\ requestStatus.message = <<"Only .slx files are supported.">>

\* C4: an Ask or RunWorkflow with an empty or all-blank prompt sets a
\* validation error status, whatever file is selected and whatever the
\* readable text holds; it never enters Busy, reads no file and sends no request.
C4_EmptyPrompt ==
  /\ \A i \in 1..Len(tasks) :
       tasks[i].kind \in {"ask", "workflow"} => ~IsBlank(tasks[i].prompt)
  /\ (last.kind \in {"ask", "workflow"} /\ IsBlank(last.prompt))
       => /\ last.outcome = "failed"
          /\ ~last.busy
          /\ last.log = <<>>
          /\ last.post = last.pre
          /\ requestStatus.isError
          /\ requestStatus.message \in
               {<<"Enter a prompt before asking the model.">>,
                <<"Enter a prompt before running MATLAB workflow.">>}

\* RunWorkflow was clicked with a blank prompt while a .slx file was selected
\* and the readable text was populated
C4_Witness ==
  /\ last.kind = "workflow"
  /\ last.prompt = <<" ">>
  /\ last.file = <<FileA>>
  /\ last.pre.readable = <<"R">>
  /\ ~last.busy
  /\ requestStatus.isError

\* C5 as stated: whenever the readable text is non-empty, an Ask or
\* RunWorkflow sends no /api/convert request.
C5_Original ==
  \A r \in Runs :
    (r.kind \in {"ask", "workflow"} /\ r.pre.readable # <<>>)
      => RequestsTo(r, "/api/convert") = <<>>

\* C5 amended: whenever the readable text holds something other than white
\* space, an Ask or RunWorkflow starts no file read and sends no /api/convert
\* request; a run that reconverts over such a text is a Convert.
C5_CacheReuse ==
  \A r \in Runs :
    (r.kind \in {"ask", "workflow"} /\ ~IsBlank(r.pre.readable))
      => /\ RequestsTo(r, "/api/convert") = <<>>
         /\ \A i \in 1..Len(r.log) : r.log[i].ev # "read"

\* an Ask over the readable text "R" that went straight to /api/ask
C5_Witness ==
  /\ last.kind = "ask"
  /\ last.pre.readable = <<"R">>
  /\ last.outcome = "success"
  /\ Len(last.log) = 2
  /\ last.log[1].url = "/api/ask"

\* the run that ended last is a successful Ask or RunWorkflow that began with
\* an empty readable text
ConvertedThenAsked ==
  /\ last.kind \in {"ask", "workflow"}
  /\ last.outcome = "success"
  /\ last.pre.readable = <<>>

ModelUrl(kind) == IF kind = "ask" THEN "/api/ask" ELSE "/api/workflow"

\* the log of a run is: file read, /api/convert request, its response, the
\* model request, its response
ConvertThenModelOrder(run) ==
  /\ Len(run.log) = 5
  /\ run.log[1].ev = "read"
  /\ run.log[2].ev = "req"  /\ run.log[2].url = "/api/convert"
  /\ run.log[3].ev = "resp" /\ run.log[3].url = "/api/convert"
  /\ run.log[4].ev = "req"  /\ run.log[4].url = ModelUrl(run.kind)
  /\ run.log[5].ev = "resp" /\ run.log[5].url = ModelUrl(run.kind)

\* C6 as stated: such a run sends exactly one /api/convert request and then
\* exactly one model request, after the convert response, carrying the
\* readable text that response returned.
C6_Original ==
  ConvertedThenAsked
    => /\ ConvertThenModelOrder(last)
       /\ last.log[4].req.readable_text = Some(ReturnedText(last.log[3].resp))

\* C6 amended: the model request carries the returned readable text with
\* leading and trailing white space removed.
C6_ConvertThenAsk ==
  ConvertedThenAsked
    => /\ ConvertThenModelOrder(last)
       /\ last.log[2].req.filename = Some(last.file[1].name)
       /\ last.log[4].req.readable_text = Some(Trim(ReturnedText(last.log[3].resp)))
       /\ last.log[4].req.prompt = Some(Trim(last.prompt))

\* an Ask that converted m.slx to "R" and then asked about "R"
C6_Witness ==
  /\ ConvertedThenAsked
  /\ last.kind = "ask"
  /\ last.file = <<FileA>>
  /\ last.log[3].resp.body.readable_text = Some(<<"R">>)
  /\ last.log[4].req.readable_text = Some(<<"R">>)

\* the handler went on after the response logged at position i of run
Accepted(run, i) == i < Len(run.log) \/ run.outcome = "success"

\* the response a failed run ended on, if it ended on one
EndedOnResponse ==
  /\ last.outcome = "failed"
  /\ last.log # <<>>
  /\ last.log[Len(last.log)].ev = "resp"
  /\ last.log[Len(last.log)].resp.net

GenericMessage(resp) == <<"Request failed (">> \o ToStr(resp.status) \o <<")">>

\* every response a run received counts as a success exactly when it is 2xx
\* with ok true
SuccessIffOk ==
  \A r \in Runs : \A i \in 1..Len(r.log) :
    r.log[i].ev = "resp" => (Accepted(r, i) <=> Is2xxOk(r.log[i].resp))

\* C7 as stated: success iff 2xx and ok; on failure the message shown is the
\* payload's error field when present, else a generic message.
C7_Original ==
  /\ SuccessIffOk
  /\ EndedOnResponse
       => LET resp == last.log[Len(last.log)].resp
          IN  /\ requestStatus.isError
              /\ requestStatus.message =
                   IF resp.parsable /\ resp.body.error # None
                   THEN resp.body.error[1] ELSE GenericMessage(resp)

\* C7 amended: the message shown is the payload's error field when present
\* and not the empty string, else "Request failed (<status>)".
C7_ResponseContract ==
  /\ SuccessIffOk
  /\ EndedOnResponse
       => LET resp == last.log[Len(last.log)].resp
          IN  /\ requestStatus.isError
              /\ requestStatus.message =
                   IF resp.parsable /\ resp.body.error # None /\ resp.body.error[1] # <<>>
                   THEN resp.body.error[1] ELSE GenericMessage(resp)

\* HTTP 200 with ok:false and error "bad format" surfaced "bad format"
C7_Witness ==
  /\ EndedOnResponse
  /\ last.log[Len(last.log)].resp = Resp(200, ErrBody(<<"bad format">>))
  /\ requestStatus = SetStatus(<<"bad format">>, TRUE)

\* C8 as stated: after a Convert whose response is {ok:true, readable_text:R,
\* stats:{blocks:B, lines:L}} the readable text is R and the status line
\* reports "B blocks, L lines".
C8_Original ==
  (/\ last.kind = "convert"
   /\ last.outcome = "success"
   /\ last.log[3].resp.body.readable_text # None
   /\ last.log[3].resp.body.stats # None)
    => LET body == last.log[3].resp.body
       IN  /\ last.post.readable = body.readable_text[1]
           /\ Contains(requestStatus.message,
                       ToStr(body.stats[1].blocks) \o <<" blocks, ">>
                         \o ToStr(body.stats[1].lines) \o <<" lines">>)

DefaultModel(p) == IF p = "ollama" THEN <<"mistral:7b-instruct">> ELSE <<"gpt-4o-mini">>
DefaultUrl(p) ==
  IF p = "ollama" THEN <<"http://localhost:11434">> ELSE <<"https://api.openai.com/v1">>

\* C9 as stated: a provider change overwrites the model name (the base URL)
\* with the new provider's default if it is empty or equals the default of
\* the provider left behind, and leaves every other value as it is.
C9_Original ==
  switch # <<>> =>
    LET b == switch[1].before
        a == switch[1].after
    IN  /\ a.modelName =
             IF b.modelName = <<>> \/ b.modelName = DefaultModel(b.provider)
             THEN DefaultModel(a.provider) ELSE b.modelName
        /\ a.baseUrl =
             IF b.baseUrl = <<>> \/ b.baseUrl = DefaultUrl(b.provider)
             THEN DefaultUrl(a.provider) ELSE b.baseUrl

\* C9 amended: the comparison is made on the value with leading and trailing
\* white space removed: an all-blank value counts as empty and a padded
\* default counts as the default; every other value is left as it is.
C9_ProviderSwitch ==
  switch # <<>> =>
    LET b == switch[1].before
        a == switch[1].after
    IN  /\ a.provider # b.provider
        /\ a.modelName =
             IF Trim(b.modelName) = <<>> \/ Trim(b.modelName) = DefaultModel(b.provider)
             THEN DefaultModel(a.provider) ELSE b.modelName
        /\ a.baseUrl =
             IF Trim(b.baseUrl) = <<>> \/ Trim(b.baseUrl) = DefaultUrl(b.provider)
             THEN DefaultUrl(a.provider) ELSE b.baseUrl

\* a switch from openai to ollama that replaced the default model name and
\* kept the base URL the user had typed
C9_Witness ==
  /\ switch # <<>>
  /\ switch[1].before.provider = "openai"
  /\ switch[1].before.modelName = <<"gpt-4o-mini">>
  /\ switch[1].after.modelName = <<"mistral:7b-instruct">>
  /\ switch[1].before.baseUrl = <<"http://gpu:8000">>
  /\ switch[1].after.baseUrl = <<"http://gpu:8000">>
  /\ provider = "ollama"

\* C10 as stated: a run that ends in failure leaves the readable text, the
\* answer/report and the generated script as they were when it was triggered.
C10_Original ==
  last.outcome = "failed" => last.post = last.pre

\* the implicit conversion of a run succeeded: its /api/convert response was
\* followed by a model request
ImplicitConverted(run) ==
  /\ run.kind \in {"ask", "workflow"}
  /\ \E i \in 1..Len(run.log) :
       /\ run.log[i].ev = "resp"
       /\ run.log[i].url = "/api/convert"
       /\ i < Len(run.log)

\* C10 amended: a run that ends in failure leaves the answer/report and the
\* generated script as they were; the readable text too, unless the run is
\* an Ask or RunWorkflow whose implicit conversion had succeeded before the
\* model request failed: then it holds the text that conversion returned.
C10_FailureKeepsCache ==
  last.outcome = "failed" =>
    /\ last.post.response = last.pre.response
    /\ last.post.generatedScript = last.pre.generatedScript
    /\ last.post.readable =
         IF ImplicitConverted(last)
         THEN ReturnedText(last.log[3].resp)
         ELSE last.pre.readable
    /\ Cache = last.post

\* an Ask that converted to "R" and then failed at /api/ask
C10_Witness ==
  /\ last.kind = "ask"
  /\ last.outcome = "failed"
  /\ ImplicitConverted(last)
  /\ last.pre.readable = <<>>
  /\ last.post.readable = <<"R">>
  /\ tasks = <<>>

\* C11: the readable text is non-empty only if an /api/convert request has
\* succeeded earlier in the session, and whenever one has, the readable text
\* is the readable_text of the most recent one.
C11_ReadableInvariant ==
  /\ readable # <<>> => session.converted # <<>>
  /\ session.converted # <<>> => readable = session.converted[1]

\* a Convert over the readable text " " that succeeded and replaced it by "R"
C11_Witness ==
  /\ last.kind = "convert"
  /\ last.outcome = "success"
  /\ last.pre.readable = <<" ">>
  /\ readable = <<"R">>
  /\ session.converted = Some(<<"R">>)

\* the status lines that only announce work under way
ProgressMessages ==
  { <<"Converting .slx file...">>,
    <<"Preparing readable model data...">>,
    <<"Querying model...">>,
    <<"Generating MATLAB script and executing in batch mode...">> }

\* C12: every run that has ended has ended as a success or as a failure with
\* a final status line; a failure of any kind (missing file, wrong extension,
\* read error, network failure, non-2xx status, payload without ok) shows a
\* non-empty message marked as error and leaves no handler behind, and a
\* success shows a message not marked as error.
C12_FailuresCaught ==
  last.kind # "none" =>
    /\ last.outcome \in {"success", "failed"}
    /\ requestStatus.message # <<>>
    /\ requestStatus.message \notin ProgressMessages
    /\ requestStatus.isError <=> last.outcome = "failed"
    /\ tasks = <<>>
    /\ AllEnabled

\* a Convert whose file read failed
C12_Witness ==
  /\ last.kind = "convert"
  /\ last.outcome = "failed"
  /\ last.log = <<ReadEvent>>
  /\ requestStatus = SetStatus(<<"Failed to read file.">>, TRUE)

\* a successful /api/convert response precedes position i of the run's log
OwnConversion(run, i) ==
  \E j \in 1..(i - 1) :
    /\ run.log[j].ev = "resp"
    /\ run.log[j].url = "/api/convert"
    /\ Is2xxOk(run.log[j].resp)

\* C13 as stated: a file change invalidates the readable text, so every
\* /api/ask and /api/workflow request carries a text converted since the last
\* file change: converted by the run itself, or converted after the last file
\* change and before the run began.
C13_Original ==
  \A r \in Runs : \A i \in 1..Len(r.log) :
    (r.log[i].ev = "req" /\ r.log[i].url \in {"/api/ask", "/api/workflow"})
      => (OwnConversion(r, i) \/ r.fresh)

\* an Ask or RunWorkflow with a prompt and a readable text that both hold
\* more than white space
AskOverCache(run) ==
  /\ run.kind \in {"ask", "workflow"}
  /\ ~IsBlank(run.prompt)
  /\ ~IsBlank(run.pre.readable)

ValidFile(fs) == fs # <<>> /\ SlxName(fs[1])

\* C14 as stated: such a run skips the conversion and sends its model
\* request, whatever file is selected, none or a non-.slx one included.
C14_Original ==
  \A r \in Runs :
    AskOverCache(r) =>
      /\ r.log # <<>>
      /\ r.log[1].ev = "req"
      /\ r.log[1].url = ModelUrl(r.kind)

\* C14 amended: the file is validated before the readable text is looked at:
\* such a run skips the conversion and sends its model request if a file
\* with a .slx name is selected, and otherwise ends at once with the
\* validation error, having sent nothing.
C14_FileValidatedFirst ==
  \A r \in Runs :
    AskOverCache(r) =>
      IF ValidFile(r.file)
      THEN /\ r.log # <<>>
           /\ r.log[1].ev = "req"
           /\ r.log[1].url = ModelUrl(r.kind)
           /\ RequestsTo(r, "/api/convert") = <<>>
      ELSE /\ r.outcome = "failed"
           /\ r.busy
           /\ r.log = <<>>
           /\ requestStatus =
                SetStatus(IF r.file = <<>> THEN <<"Select a .slx file first.">>
                          ELSE <<"Only .slx files are supported.">>, TRUE)

\* an Ask over the readable text "R" with no file selected
C14_Witness ==
  /\ AskOverCache(last)
  /\ last.kind = "ask"
  /\ last.file = <<>>
  /\ last.pre.readable = <<"R">>
  /\ last.outcome = "failed"
  /\ requestStatus.message = <<"Select a .slx file first.">>

\* the run that ended last is a Convert of a file with a .slx name
ConvertOfValidFile == last.kind = "convert" /\ ValidFile(last.file)

\* what a Convert leaves in the readable text
ConvertStores ==
  /\ last.outcome = "success"
       => /\ Len(last.log) = 3
          /\ last.post.readable = ReturnedText(last.log[3].resp)
  /\ last.outcome = "failed" => last.post.readable = last.pre.readable

\* C15 as stated: such a Convert always sends exactly one /api/convert
\* request, over a populated readable text too; on success the readable text
\* is the returned text, on failure it is what it was.
C15_Original ==
  ConvertOfValidFile
    => /\ Len(RequestsTo(last, "/api/convert")) = 1
       /\ ConvertStores

\* C15 amended: such a Convert always starts a file read, over a populated
\* readable text too, and sends exactly one /api/convert request once the
\* read has succeeded, none if the read fails; on success the readable text
\* is the returned text, on failure it is what it was.
C15_ForcedReconversion ==
  /\ \A i \in 1..Len(tasks) :
       tasks[i].kind = "convert"
         => /\ tasks[i].log[1] = ReadEvent
            /\ Len(RequestsTo(tasks[i], "/api/convert"))
                 = IF tasks[i].pc = "reading" THEN 0 ELSE 1
  /\ ConvertOfValidFile
       => /\ last.log # <<>>
          /\ last.log[1] = ReadEvent
          /\ Len(RequestsTo(last, "/api/convert")) = IF Len(last.log) = 1 THEN 0 ELSE 1
          /\ Len(last.log) = 1 => last.outcome = "failed"
          /\ ConvertStores

\* a Convert over the readable text "R" that succeeded and stored " "
C15_Witness ==
  /\ ConvertOfValidFile
  /\ last.pre.readable = <<"R">>
  /\ last.outcome = "success"
  /\ Len(RequestsTo(last, "/api/convert")) = 1
  /\ readable = <<" ">>

\* the run that ended last is a RunWorkflow whose /api/workflow response was
\* accepted
WorkflowSucceeded ==
  /\ last.kind = "workflow"
  /\ last.outcome = "success"
  /\ last.log # <<>>
  /\ last.log[Len(last.log)].ev = "resp"
  /\ last.log[Len(last.log)].url = "/api/workflow"

WorkflowData == last.log[Len(last.log)].resp.body

MatlabStatus(data) == IF data.matlab = None THEN None ELSE data.matlab[1].status
MatlabRunId(data) == IF data.matlab = None THEN None ELSE data.matlab[1].run_id

\* the status says "completed" exactly for the status "success"; script and
\* report are stored from the response, an absent one as the empty text
WorkflowStateAndStores ==
  /\ Len(requestStatus.message) >= 3
  /\ requestStatus.message[1] = "Workflow "
  /\ requestStatus.message[2] =
       (IF MatlabStatus(WorkflowData) = Some(<<"success">>) THEN "completed" ELSE "failed")
  /\ requestStatus.message[3] = ". Run ID: "
  /\ ~requestStatus.isError
  /\ generatedScript = OrElse(WorkflowData.generated_script, <<>>)
  /\ response = OrElse(WorkflowData.report, <<>>)

RunIdShown == SubSeq(requestStatus.message, 4, Len(requestStatus.message))

\* C16 as stated: the status shows the returned run_id whenever the response
\* has one, and "n/a" otherwise.
C16_Original ==
  WorkflowSucceeded
    => /\ WorkflowStateAndStores
       /\ RunIdShown = (IF MatlabRunId(WorkflowData) # None
                        THEN MatlabRunId(WorkflowData)[1] ELSE <<"n/a">>)

\* C16 amended: the status shows the returned run_id when the response has
\* one that is not empty, and "n/a" otherwise, an empty run_id included.
C16_WorkflowStatus ==
  WorkflowSucceeded
    => /\ WorkflowStateAndStores
       /\ RunIdShown = (IF MatlabRunId(WorkflowData) \notin {None, Some(<<>>)}
                        THEN MatlabRunId(WorkflowData)[1] ELSE <<"n/a">>)

\* a workflow whose run reported "error" and an empty run_id
C16_Witness ==
  /\ WorkflowSucceeded
  /\ MatlabStatus(WorkflowData) = Some(<<"error">>)
  /\ requestStatus.message = <<"Workflow ", "failed", ". Run ID: ", "n/a">>
  /\ generatedScript = <<"G">>
  /\ response = <<>>

\* the implicit conversion of an Ask or RunWorkflow has failed: the file was
\* rejected, the read failed, or the /api/convert response was not accepted
ImplicitConvertFailed(run) ==
  /\ run.kind \in {"ask", "workflow"}
  /\ ~IsBlank(run.prompt)
  /\ \/ ~ValidFile(run.file)
     \/ run.outcome = "failed" /\ run.log = <<ReadEvent>>
     \/ \E i \in 1..Len(run.log) :
          /\ run.log[i].ev = "resp"
          /\ run.log[i].url = "/api/convert"
          /\ ~Is2xxOk(run.log[i].resp)

\* C17: when the implicit conversion of an Ask or RunWorkflow fails, the
\* handler stops there: it ends as failed, it has sent no /api/ask and no
\* /api/workflow request, and the answer and the generated script are what
\* they were when it started.
C17_ImplicitFailureStops ==
  \A r \in Runs :
    ImplicitConvertFailed(r) =>
      /\ r.outcome = "failed"
      /\ RequestsTo(r, "/api/ask") = <<>>
      /\ RequestsTo(r, "/api/workflow") = <<>>
      /\ r.post.response = r.pre.response
      /\ r.post.generatedScript = r.pre.generatedScript
      /\ r.post.readable = r.pre.readable

\* a RunWorkflow that follows a successful one and whose /api/convert request
\* was answered 404
C17_Witness ==
  /\ last.kind = "workflow"
  /\ ImplicitConvertFailed(last)
  /\ Len(last.log) = 3
  /\ last.log[3].resp.status = 404
  /\ last.pre.generatedScript = <<"G">>
  /\ generatedScript = <<"G">>

\* no handler is suspended and the three buttons are enabled
Idle == tasks = <<>> /\ AllEnabled

\* C18: provided every dispatched file read and request settles, an
\* operation that has entered Busy always ends (as success or as failed) with
\* the three buttons enabled again; until the read or request it waits for
\* settles it stays Busy with the three buttons disabled, and nothing but
\* that settling ends it.
C18_Liveness ==
  /\ (tasks # <<>>) ~> (Idle /\ last.busy /\ last.outcome \in {"success", "failed"})
  /\ [](tasks # <<>> => AllDisabled)
  /\ [][(tasks # <<>> /\ tasks' = <<>>)
          => (FileRead \/ ConvertResponse \/ ModelResponse)]_vars

\* an Ask that went through the read, the conversion and the model request
\* and is back to idle
C18_Witness ==
  /\ Idle
  /\ last.kind = "ask"
  /\ last.busy
  /\ last.outcome = "success"
  /\ Len(last.log) = 5

\* the model requests of a run
ModelRequests(run) ==
  SelectSeq(run.log, LAMBDA e : e.ev = "req" /\ e.url \in {"/api/ask", "/api/workflow"})

\* with the Ollama provider the key field is empty and disabled, and the
\* model requests carry an empty api_key
OllamaKeyEmpty ==
  /\ provider = "ollama" => (apiKey.value = <<>> /\ apiKey.disabled)
  /\ \A r \in Runs : \A i \in 1..Len(ModelRequests(r)) :
       LET cfg == ModelRequests(r)[i].req.model_config[1]
       IN  cfg.provider = "ollama" => cfg.api_key = <<>>

\* C19 as stated: with the Ollama provider the key is empty and disabled;
\* with the OpenAI-compatible provider the key field is enabled and no
\* /api/ask or /api/workflow request carries an empty api_key.
C19_Original ==
  /\ OllamaKeyEmpty
  /\ provider = "openai" => ~apiKey.disabled
  /\ \A r \in Runs : \A i \in 1..Len(ModelRequests(r)) :
       LET cfg == ModelRequests(r)[i].req.model_config[1]
       IN  cfg.provider = "openai" => cfg.api_key # <<>>

\* the /api/convert requests of a run belong to the file the run captured
CapturedFileSent(run) ==
  \A i \in 1..Len(run.log) :
    (run.log[i].ev = "req" /\ run.log[i].url = "/api/convert")
      => /\ run.file # <<>>
         /\ run.log[i].req.filename = Some(run.file[1].name)
         /\ run.log[i].req.content_b64 = Some(ToBase64(run.file[1].result))

\* the readable text holds what the run's own /api/convert request returned
CapturedFileStored(run) ==
  \A i \in 1..Len(run.log) :
    (run.log[i].ev = "resp" /\ run.log[i].url = "/api/convert" /\ Is2xxOk(run.log[i].resp))
      => /\ i > 1
         /\ run.log[i - 1].ev = "req"
         /\ run.log[i - 1].url = "/api/convert"
         /\ run.post.readable = ReturnedText(run.log[i].resp)

\* C20: a conversion captures the selected file once, when it starts: the
\* filename and the content_b64 of every /api/convert request are those of
\* that one file, whatever is selected while the file is read or when the
\* request is sent, and the readable text stored on success is what that
\* request returned.
C20_CapturedFile ==
  \A r \in Runs : CapturedFileSent(r) /\ CapturedFileStored(r)

\* a conversion of m.slx has been sent and has succeeded, M.SLX having been
\* selected while it was in flight
C20_Witness ==
  /\ last.kind = "convert"
  /\ last.outcome = "success"
  /\ last.file = <<FileA>>
  /\ files = <<FileB>>
  /\ last.log[2].req.filename = Some(FileA.name)
  /\ readable = <<"R">>

====
